---- MODULE Spec2Model ----
(***************************************************************************)
(* Model of the rule-validation engine of src/rules.ts: validate,          *)
(* parseRequest (with the Joi schemas it runs), indexOn, the conditions    *)
(* registry and containsValidator.                                         *)
(*                                                                         *)
(* A JSON-decoded value is a tagged record:                                *)
(*   [t |-> "null"], [t |-> "bool", b], [t |-> "num", n],                  *)
(*   [t |-> "str", s]  with s a sequence of one-character strings,         *)
(*   [t |-> "arr", a]  with a a sequence of values,                        *)
(*   [t |-> "obj", o]  with o a sequence of [k, v] members, k a sequence   *)
(*                     of characters, keys distinct.                       *)
(* Values that only arise while the program runs: [t |-> "undefined"],     *)
(* [t |-> "nan"], [t |-> "fn", name] (a built-in function reached through  *)
(* the prototype chain) and [t |-> "throw"], which stands for a TypeError  *)
(* raised by the expression being evaluated.                               *)
(***************************************************************************)
EXTENDS Integers, Sequences, FiniteSets, TLC

VARIABLES req, pc, outcome

vars == <<req, pc, outcome>>

\* ------------------------------------------------------------------ bounds
\* JSON numbers of the inputs range over 0..MaxNum.
MaxNum == 2
\* Arrays of the inputs hold at most MaxArrLen elements.
MaxArrLen == 2

\* ------------------------------------------------------------ value model
Null == [t |-> "null"]
Undefined == [t |-> "undefined"]
NaN == [t |-> "nan"]
Throw == [t |-> "throw"]
Bool(b) == [t |-> "bool", b |-> b]
Num(n) == [t |-> "num", n |-> n]
Str(s) == [t |-> "str", s |-> s]
Arr(a) == [t |-> "arr", a |-> a]
Obj(o) == [t |-> "obj", o |-> o]
Fn(name, arity) == [t |-> "fn", name |-> name, arity |-> arity]
Member(k, v) == [k |-> k, v |-> v]

\* The characters the model uses, in the order of their UTF-16 code units.
Ascii ==
  << " ", "(", ")", "+", ",", "-", ".",
     "0", "1", "2", "3", "4", "5", "6", "7", "8", "9",
     "A", "B", "F", "N", "O", "S", "[", "]", "_",
     "a", "b", "c", "d", "e", "f", "g", "h", "i", "j", "k", "l", "m",
     "n", "o", "p", "q", "r", "s", "t", "u", "v", "w", "x", "y", "z",
     "{", "}" >>

Code(c) == CHOOSE i \in 1..Len(Ascii) : Ascii[i] = c

Digits == <<"0", "1", "2", "3", "4", "5", "6", "7", "8", "9">>

IsDigit(c) == \E i \in 1..Len(Digits) : Digits[i] = c

DigitValue(c) == (CHOOSE i \in 1..Len(Digits) : Digits[i] = c) - 1

\* The text of a sequence of characters, for the messages the engine builds.
RECURSIVE Text(_)
Text(s) == IF s = <<>> THEN "" ELSE Head(s) \o Text(Tail(s))

\* Names the engine and the language use as property keys.
kRule == <<"r", "u", "l", "e">>
kData == <<"d", "a", "t", "a">>
kField == <<"f", "i", "e", "l", "d">>
kCondition == <<"c", "o", "n", "d", "i", "t", "i", "o", "n">>
kConditionValue ==
  <<"c", "o", "n", "d", "i", "t", "i", "o", "n", "_", "v", "a", "l", "u", "e">>
kLength == <<"l", "e", "n", "g", "t", "h">>
kConstructor == <<"c", "o", "n", "s", "t", "r", "u", "c", "t", "o", "r">>
kToString == <<"t", "o", "S", "t", "r", "i", "n", "g">>

\* ------------------------------------------------- object member access
RECURSIVE HasOwn(_, _)
HasOwn(o, k) ==
  IF o = <<>> THEN FALSE
  ELSE IF Head(o).k = k THEN TRUE ELSE HasOwn(Tail(o), k)

RECURSIVE OwnValue(_, _)
OwnValue(o, k) ==
  IF o = <<>> THEN Undefined
  ELSE IF Head(o).k = k THEN Head(o).v ELSE OwnValue(Tail(o), k)

OwnKeys(o) == {o[i].k : i \in 1..Len(o)}

\* ---------------------------------------------------- language semantics
\* x === y. Arrays, objects and functions are equal only to themselves, and
\* two subtrees of one JSON-decoded request are never the same object.
StrictEq(x, y) ==
  /\ x.t = y.t
  /\ CASE x.t = "null" -> TRUE
       [] x.t = "undefined" -> TRUE
       [] x.t = "bool" -> x.b = y.b
       [] x.t = "num" -> x.n = y.n
       [] x.t = "str" -> x.s = y.s
       [] OTHER -> FALSE

RECURSIVE AllDigits(_)
AllDigits(s) == IF s = <<>> THEN TRUE ELSE IsDigit(Head(s)) /\ AllDigits(Tail(s))

RECURSIVE DecValue(_)
DecValue(s) ==
  IF s = <<>> THEN 0 ELSE 10 * DecValue(SubSeq(s, 1, Len(s) - 1)) + DigitValue(s[Len(s)])

RECURSIVE NatToChars(_)
NatToChars(n) ==
  IF n < 10 THEN <<Digits[n + 1]>>
  ELSE NatToChars(n \div 10) \o <<Digits[(n % 10) + 1]>>

NumToChars(n) == IF n < 0 THEN <<"-">> \o NatToChars(0 - n) ELSE NatToChars(n)

IsSpace(c) == c = " "

RECURSIVE TrimStart(_)
TrimStart(s) == IF s # <<>> /\ IsSpace(Head(s)) THEN TrimStart(Tail(s)) ELSE s

RECURSIVE TrimEnd(_)
TrimEnd(s) ==
  IF s # <<>> /\ IsSpace(s[Len(s)]) THEN TrimEnd(SubSeq(s, 1, Len(s) - 1)) ELSE s

\* String.prototype.trim
Trim(s) == TrimEnd(TrimStart(s))

\* The text of a function value, as Function.prototype.toString gives it.
FnText(name) ==
  <<"f", "u", "n", "c", "t", "i", "o", "n", " ">> \o name
    \o <<"(", ")", " ", "{", " ", "[", "n", "a", "t", "i", "v", "e", " ",
         "c", "o", "d", "e", "]", " ", "}">>

ObjectText ==
  <<"[", "o", "b", "j", "e", "c", "t", " ", "O", "b", "j", "e", "c", "t", "]">>

\* ToString(v): a str value, or Throw. An object whose own member toString
\* is not callable (every JSON-decoded member is not) has no primitive value:
\* Object.prototype.valueOf returns the object itself, and the conversion
\* raises a TypeError.
RECURSIVE JsToString(_)
RECURSIVE JoinArr(_)
JsToString(v) ==
  CASE v.t = "str" -> v
    [] v.t = "null" -> Str(<<"n", "u", "l", "l">>)
    [] v.t = "undefined" -> Str(<<"u", "n", "d", "e", "f", "i", "n", "e", "d">>)
    [] v.t = "nan" -> Str(<<"N", "a", "N">>)
    [] v.t = "bool" ->
         IF v.b THEN Str(<<"t", "r", "u", "e">>) ELSE Str(<<"f", "a", "l", "s", "e">>)
    [] v.t = "num" -> Str(NumToChars(v.n))
    [] v.t = "arr" -> JoinArr(v.a)
    [] v.t = "obj" -> IF HasOwn(v.o, kToString) THEN Throw ELSE Str(ObjectText)
    [] v.t = "fn" -> Str(FnText(v.name))
    [] OTHER -> Throw

\* Array.prototype.join(","): null and undefined elements give the empty text.
JoinArr(a) ==
  IF a = <<>> THEN Str(<<>>)
  ELSE LET h == IF Head(a).t \in {"null", "undefined"} THEN Str(<<>>)
                ELSE JsToString(Head(a))
           r == JoinArr(Tail(a))
       IN IF h.t = "throw" \/ r.t = "throw" THEN Throw
          ELSE IF Len(a) = 1 THEN h
          ELSE Str(h.s \o <<",">> \o r.s)

\* ToPrimitive(v) with hint number: valueOf of an array, an object or a
\* function returns the value itself, so its toString decides.
ToPrimitive(v) == IF v.t \in {"arr", "obj", "fn"} THEN JsToString(v) ELSE v

\* StringToNumber over the texts of the model: optional blanks, an optional
\* sign and decimal digits; the empty text is 0 and any other text is NaN.
StringToNumber(s) ==
  LET t == Trim(s)
  IN IF t = <<>> THEN Num(0)
     ELSE LET body == IF Head(t) \in {"+", "-"} THEN Tail(t) ELSE t
          IN IF body # <<>> /\ AllDigits(body)
             THEN Num(IF Head(t) = "-" THEN 0 - DecValue(body) ELSE DecValue(body))
             ELSE NaN

\* ToNumber of a primitive value.
ToNumber(p) ==
  CASE p.t = "num" -> p
    [] p.t = "null" -> Num(0)
    [] p.t = "bool" -> Num(IF p.b THEN 1 ELSE 0)
    [] p.t = "str" -> StringToNumber(p.s)
    [] OTHER -> NaN

\* Comparison of two texts by code units.
RECURSIVE StrLess(_, _)
StrLess(a, b) ==
  IF b = <<>> THEN FALSE
  ELSE IF a = <<>> THEN TRUE
  ELSE IF Head(a) = Head(b) THEN StrLess(Tail(a), Tail(b))
  ELSE Code(Head(a)) < Code(Head(b))

\* The abstract relational comparison x < y: "true", "false", "undefined"
\* (an operand is NaN) or "throw" (an operand has no primitive value).
LessThan(x, y) ==
  LET px == ToPrimitive(x)
      py == ToPrimitive(y)
  IN IF px.t = "throw" \/ py.t = "throw" THEN "throw"
     ELSE IF px.t = "str" /\ py.t = "str"
          THEN (IF StrLess(px.s, py.s) THEN "true" ELSE "false")
     ELSE LET nx == ToNumber(px)
              ny == ToNumber(py)
          IN IF nx.t = "nan" \/ ny.t = "nan" THEN "undefined"
             ELSE IF nx.n < ny.n THEN "true" ELSE "false"

\* value > other
Greater(value, other) ==
  LET r == LessThan(other, value)
  IN IF r = "throw" THEN Throw ELSE Bool(r = "true")

\* value >= other
GreaterEq(value, other) ==
  LET r == LessThan(value, other)
  IN IF r = "throw" THEN Throw ELSE Bool(r = "false")

\* A canonical array index: decimal digits without a leading zero.
IsIndexKey(k) == k # <<>> /\ AllDigits(k) /\ (Len(k) = 1 \/ Head(k) # "0")

ConstructorName(v) ==
  CASE v.t = "obj" -> <<"O", "b", "j", "e", "c", "t">>
    [] v.t = "str" -> <<"S", "t", "r", "i", "n", "g">>
    [] v.t = "arr" -> <<"A", "r", "r", "a", "y">>
    [] v.t = "num" -> <<"N", "u", "m", "b", "e", "r">>
    [] v.t = "bool" -> <<"B", "o", "o", "l", "e", "a", "n">>
    [] OTHER -> <<"F", "u", "n", "c", "t", "i", "o", "n">>

\* The members every non-null value inherits, as far as the keys of the model
\* name them: constructor and toString.
Inherited(v, k) ==
  IF k = kConstructor THEN Fn(ConstructorName(v), 1)
  ELSE IF k = kToString THEN Fn(kToString, 0)
  ELSE Undefined

\* v?.[k] for a key text k: own members first, then the inherited ones.
GetProp(v, k) ==
  CASE v.t \in {"null", "undefined"} -> Undefined
    [] v.t = "obj" -> IF HasOwn(v.o, k) THEN OwnValue(v.o, k) ELSE Inherited(v, k)
    [] v.t = "str" ->
         IF IsIndexKey(k) /\ DecValue(k) < Len(v.s) THEN Str(<<v.s[DecValue(k) + 1]>>)
         ELSE IF k = kLength THEN Num(Len(v.s))
         ELSE Inherited(v, k)
    [] v.t = "arr" ->
         IF IsIndexKey(k) /\ DecValue(k) < Len(v.a) THEN v.a[DecValue(k) + 1]
         ELSE IF k = kLength THEN Num(Len(v.a))
         ELSE Inherited(v, k)
    [] v.t = "fn" -> IF k = kLength THEN Num(v.arity) ELSE Inherited(v, k)
    [] OTHER -> Inherited(v, k)

IsSubstring(sub, s) ==
  \E i \in 0..(Len(s) - Len(sub)) : SubSeq(s, i + 1, i + Len(sub)) = sub

\* value.includes(element): String.prototype.includes converts the element
\* to a text, Array.prototype.includes compares by SameValueZero, and a value
\* of any other kind has no callable includes.
Includes(value, element) ==
  CASE value.t = "str" ->
         LET e == JsToString(element)
         IN IF e.t = "throw" THEN Throw ELSE Bool(IsSubstring(e.s, value.s))
    [] value.t = "arr" ->
         Bool(\E i \in 1..Len(value.a) : StrictEq(value.a[i], element))
    [] OTHER -> Throw

\* Number.parseInt(s): leading blanks, an optional sign, then the longest
\* run of decimal digits; NaN when there is none.
RECURSIVE DigitPrefix(_)
DigitPrefix(s) ==
  IF s # <<>> /\ IsDigit(Head(s)) THEN <<Head(s)>> \o DigitPrefix(Tail(s)) ELSE <<>>

ParseInt(s) ==
  LET t == TrimStart(s)
      body == IF t # <<>> /\ Head(t) \in {"+", "-"} THEN Tail(t) ELSE t
      ds == DigitPrefix(body)
  IN IF ds = <<>> THEN NaN
     ELSE Num(IF t # <<>> /\ Head(t) = "-" THEN 0 - DecValue(ds) ELSE DecValue(ds))

\* ------------------------------------------------- the condition registry
Name(chars) == Str(chars)

cEq == Name(<<"e", "q">>)
cNeq == Name(<<"n", "e", "q">>)
cGt == Name(<<"g", "t">>)
cGte == Name(<<"g", "t", "e">>)
cContains == Name(<<"c", "o", "n", "t", "a", "i", "n", "s">>)

\* Object.keys(conditions)
ConditionNames == {cEq, cNeq, cGt, cGte, cContains}

\* containsValidator(value, element, index): a Bool value, or Throw.
containsValidator(value, element, index) ==
  IF index.t = "num"
  THEN Bool(StrictEq(GetProp(value, NumToChars(index.n)), element))
  ELSE Includes(value, element)

\* The registry with gt registered as value >= other.
conditions_GtAsGte(name, value, other, index) ==
  CASE name = cEq -> Bool(StrictEq(value, other))
    [] name = cNeq -> Bool(~StrictEq(value, other))
    [] name = cGt -> GreaterEq(value, other)
    [] name = cGte -> GreaterEq(value, other)
    [] name = cContains -> containsValidator(value, other, index)
    [] OTHER -> Throw

\* conditions[name](value, other, index); the comparison rules ignore index.
conditions(name, value, other, index) ==
  CASE name = cEq -> Bool(StrictEq(value, other))
    [] name = cNeq -> Bool(~StrictEq(value, other))
    [] name = cGt -> Greater(value, other)
    [] name = cGte -> GreaterEq(value, other)
    [] name = cContains -> containsValidator(value, other, index)
    [] OTHER -> Throw

\* ------------------------------------------------------------ the schemas
\* The outcome of a schema: no error, or the first error detail (validation
\* aborts early): its path as String(details.path), its type and its message.
Valid == [error |-> FALSE]
Detail(path, type, message) ==
  [error |-> TRUE, path |-> path, type |-> type, message |-> message]

NotAllowed(label) == "\"" \o label \o "\" is not allowed"

\* The first member of o, in key order, that the schema does not name.
RECURSIVE FirstUnknown(_, _)
FirstUnknown(o, known) ==
  IF o = <<>> THEN <<>>
  ELSE IF Head(o).k \notin known THEN <<Head(o).k>>
  ELSE FirstUnknown(Tail(o), known)

\* ruleSchema with condition declared as any present value, and with
\* condition_value declared before condition.
ruleSchema_AnyCondition(rule) ==
  IF rule.t = "undefined" THEN Detail("rule", "any.required", "rule is required.")
  ELSE IF rule.t # "obj" THEN Detail("rule", "object.base", "rule should be an object.")
  ELSE IF OwnValue(rule.o, kField).t = "undefined"
  THEN Detail("rule,field", "any.required", "rule.field is required")
  ELSE IF OwnValue(rule.o, kField).t # "str"
  THEN Detail("rule,field", "string.base", "rule.field should be a string")
  ELSE IF OwnValue(rule.o, kCondition).t = "undefined"
  THEN Detail("rule,condition", "any.required", "rule.condition is required")
  ELSE IF OwnValue(rule.o, kConditionValue).t = "undefined"
  THEN Detail("rule,condition_value", "any.required",
              "rule.condition_value is required")
  ELSE Valid

ruleSchema_ValueFirst(rule) ==
  IF rule.t = "undefined" THEN Detail("rule", "any.required", "rule is required.")
  ELSE IF rule.t # "obj" THEN Detail("rule", "object.base", "rule should be an object.")
  ELSE IF OwnValue(rule.o, kField).t = "undefined"
  THEN Detail("rule,field", "any.required", "rule.field is required")
  ELSE IF OwnValue(rule.o, kField).t # "str"
  THEN Detail("rule,field", "string.base", "rule.field should be a string")
  ELSE IF OwnValue(rule.o, kConditionValue).t = "undefined"
  THEN Detail("rule,condition_value", "any.required",
              "rule.condition_value is required")
  ELSE IF OwnValue(rule.o, kCondition).t = "undefined"
  THEN Detail("rule,condition", "any.required", "rule.condition is required")
  ELSE IF OwnValue(rule.o, kCondition) \notin ConditionNames
  THEN Detail("rule,condition", "any.only",
              "rule.condition must be one of eq, neq, gt, gte, or contains")
  ELSE Valid

\* ruleSchema: the keys in the order of the schema, then the unknown keys.
ruleSchema(rule) ==
  IF rule.t = "undefined" THEN Detail("rule", "any.required", "rule is required.")
  ELSE IF rule.t # "obj" THEN Detail("rule", "object.base", "rule should be an object.")
  ELSE
    LET field == OwnValue(rule.o, kField)
        condition == OwnValue(rule.o, kCondition)
        condition_value == OwnValue(rule.o, kConditionValue)
        unknown == FirstUnknown(rule.o, {kField, kCondition, kConditionValue})
    IN IF field.t = "undefined"
       THEN Detail("rule,field", "any.required", "rule.field is required")
       ELSE IF field.t # "str"
       THEN Detail("rule,field", "string.base", "rule.field should be a string")
       ELSE IF field.s = <<>>
       THEN Detail("rule,field", "string.empty",
                   "\"rule.field\" is not allowed to be empty")
       ELSE IF condition.t = "undefined"
       THEN Detail("rule,condition", "any.required", "rule.condition is required")
       ELSE IF condition \notin ConditionNames
       THEN Detail("rule,condition", "any.only",
                   "rule.condition must be one of eq, neq, gt, gte, or contains")
       ELSE IF condition_value.t = "undefined"
       THEN Detail("rule,condition_value", "any.required",
                   "rule.condition_value is required")
       ELSE IF unknown # <<>>
       THEN Detail("rule," \o Text(unknown[1]), "object.unknown",
                   NotAllowed("rule." \o Text(unknown[1])))
       ELSE Valid

\* dataSchema declared as any present value.
dataSchema_AnyValue(data) ==
  IF data.t = "undefined" THEN Detail("data", "any.required", "data is required.")
  ELSE Valid

\* dataSchema: the alternatives array, object, string. An empty text matches
\* the last alternative's type and fails its rule, so that error is reported.
dataSchema(data) ==
  IF data.t = "undefined" THEN Detail("data", "any.required", "data is required.")
  ELSE IF data.t \in {"arr", "obj"} THEN Valid
  ELSE IF data.t = "str"
  THEN (IF data.s = <<>>
        THEN Detail("data", "string.empty", "\"data\" is not allowed to be empty")
        ELSE Valid)
  ELSE Detail("data", "alternatives.types",
              "data should be an array, an object, or a string.")

UnknownKey(k) == Detail(Text(k), "object.unknown", NotAllowed(Text(k)))

\* validatorSchema with the key data declared before the key rule.
validatorSchema_DataFirst(r) ==
  IF r.t # "obj" THEN Detail("", "object.base", "\"value\" must be of type object")
  ELSE IF dataSchema(OwnValue(r.o, kData)).error THEN dataSchema(OwnValue(r.o, kData))
  ELSE IF ruleSchema(OwnValue(r.o, kRule)).error THEN ruleSchema(OwnValue(r.o, kRule))
  ELSE IF FirstUnknown(r.o, {kRule, kData}) # <<>>
  THEN UnknownKey(FirstUnknown(r.o, {kRule, kData})[1])
  ELSE Valid

\* validatorSchema.validate(req)
validatorSchema(r) ==
  IF r.t # "obj" THEN Detail("", "object.base", "\"value\" must be of type object")
  ELSE
    LET ruleResult == ruleSchema(OwnValue(r.o, kRule))
        dataResult == dataSchema(OwnValue(r.o, kData))
        unknown == FirstUnknown(r.o, {kRule, kData})
    IN IF ruleResult.error THEN ruleResult
       ELSE IF dataResult.error THEN dataResult
       ELSE IF unknown # <<>> THEN UnknownKey(unknown[1])
       ELSE Valid

\* ----------------------------------------------------------- the engine
Abort(type, value) == [type |-> type, value |-> value]

Completed(error, field, field_value, condition, condition_value) ==
  [type |-> "completed",
   value |-> [error |-> error, field |-> field, field_value |-> field_value,
              condition |-> condition, condition_value |-> condition_value]]

\* validate left by a TypeError instead of a return.
Raised == [type |-> "exception", value |-> "TypeError"]

\* parseRequest without the case of an input that is no object.
parseRequest_NoSchemaCase(r) ==
  LET details == validatorSchema(r)
  IN IF details.error
     THEN IF details.type = "any.required"
          THEN Abort("missing_required_field", details.message)
          ELSE Abort("type_error", details.message)
     ELSE [type |-> "request", value |-> r]

\* parseRequest(req)
parseRequest(r) ==
  LET details == validatorSchema(r)
  IN IF details.error
     THEN IF details.path \in {"data", "rule"} /\ details.type = "any.required"
          THEN Abort("missing_required_field", details.message)
          ELSE IF details.path = "" /\ details.type = "object.base"
          THEN Abort("invalid_schema", "Invalid JSON payload passed.")
          ELSE IF details.type = "any.required"
          THEN Abort("missing_required_field", details.message)
          ELSE Abort("type_error", details.message)
     ELSE [type |-> "request", value |-> r]

\* path.split(".")
RECURSIVE Split(_)
Split(s) ==
  IF \E i \in 1..Len(s) : s[i] = "."
  THEN LET i == CHOOSE j \in 1..Len(s) :
                  s[j] = "." /\ \A h \in 1..(j - 1) : s[h] # "."
       IN <<SubSeq(s, 1, i - 1)>> \o Split(SubSeq(s, i + 1, Len(s)))
  ELSE <<s>>

\* parts.filter((v) => v.trim() !== "")
Parts(path) == SelectSeq(Split(path), LAMBDA v : Trim(v) # <<>>)

\* parts.reduce((prev, current) => prev?.[current], obj)
RECURSIVE Reduce(_, _)
Reduce(prev, parts) ==
  IF parts = <<>> THEN prev ELSE Reduce(GetProp(prev, Head(parts)), Tail(parts))

indexOn(obj, path) == Reduce(obj, Parts(path))

MissingField(field) == "field " \o Text(field) \o " is missing from data."

\* The comparison of the string/array branch, with the parsed index.
FirstComparison(data, rule) ==
  conditions(OwnValue(rule.o, kCondition), data, OwnValue(rule.o, kConditionValue),
             ParseInt(OwnValue(rule.o, kField).s))

\* The comparison every request that has a field value ends with.
LastComparison(dataFieldValue, rule) ==
  conditions(OwnValue(rule.o, kCondition), dataFieldValue,
             OwnValue(rule.o, kConditionValue), Undefined)

\* validate(req)
validate(r) ==
  LET result == parseRequest(r)
  IN IF result.type # "request" THEN result
     ELSE
       LET data == OwnValue(r.o, kData)
           rule == OwnValue(r.o, kRule)
           whole == data.t \in {"str", "arr"}
           dataFieldValue ==
             IF whole THEN data ELSE indexOn(data, OwnValue(rule.o, kField).s)
       IN IF whole /\ FirstComparison(data, rule).t = "throw" THEN Raised
          ELSE IF dataFieldValue.t = "undefined"
          THEN Abort("missing_data_field", MissingField(OwnValue(rule.o, kField).s))
          ELSE IF LastComparison(dataFieldValue, rule).t = "throw" THEN Raised
          ELSE Completed(~LastComparison(dataFieldValue, rule).b,
                         OwnValue(rule.o, kField),
                         dataFieldValue,
                         OwnValue(rule.o, kCondition),
                         OwnValue(rule.o, kConditionValue))

\* ------------------------------------------------------------ the inputs
\* Sequences over S of length at most n.
UpTo(S, n) == UNION {[1..m -> S] : m \in 0..n}

\* A member list without the members whose value is absent.
RECURSIVE Present(_)
Present(ms) ==
  IF ms = <<>> THEN <<>>
  ELSE IF Head(ms).v.t = "undefined" THEN Present(Tail(ms))
  ELSE <<Head(ms)>> \o Present(Tail(ms))

kA == <<"a">>
kB == <<"b">>
kBlank == <<" ">>
kExtra == <<"x">>

Nums == {Num(n) : n \in 0..MaxNum}

Texts == {Str(<<>>), Str(<<"a">>), Str(<<"b">>), Str(<<"a", "b">>), Str(<<"1">>)}

Leaves == {Null, Bool(TRUE), Bool(FALSE)} \cup Nums \cup Texts

\* {"toString": 1}: an object that cannot be converted to a primitive value.
NoPrimitive == Obj(<<Member(kToString, Num(1))>>)

Elements == {Num(1), Str(<<"a">>), Str(<<"b">>), Null, NoPrimitive}

Arrays == {Arr(a) : a \in UpTo(Elements, MaxArrLen)}

ConditionValues ==
  Leaves \cup {Arr(<<>>), Arr(<<Num(1)>>), Obj(<<>>), NoPrimitive}

Nested ==
  {Obj(<<Member(kB, w)>>) : w \in {Num(1), Str(<<"a">>), Null}}
    \cup {Obj(<<Member(kBlank, Obj(<<Member(kB, Num(1))>>))>>)}

Objects ==
  {Obj(<<>>), NoPrimitive, Obj(<<Member(kA, Num(1)), Member(kB, Num(2))>>)}
    \cup {Obj(<<Member(kA, v)>>) :
            v \in Leaves \cup Nested
                    \cup {Arr(<<Str(<<"a">>), Str(<<"b">>)>>), NoPrimitive}}

\* The values dataSchema accepts.
GoodData == (Texts \ {Str(<<>>)}) \cup Arrays \cup Objects

\* The texts ruleSchema accepts as rule.field.
Fields ==
  { <<"a">>, <<"b">>, <<"a", ".", "b">>, <<".", "a", ".", ".", "b", ".">>,
    <<"a", ".", " ", ".", "b">>, <<"a", ".", "0">>, <<"a", ".">> \o kLength,
    <<"0">>, <<"1">>, <<"5">>, <<"1", "a">>, <<"-", "1">>, <<".">>,
    kConstructor, kToString }

Rule(field, condition, condition_value, extra) ==
  Obj(Present(<<Member(kField, field), Member(kCondition, condition),
                Member(kConditionValue, condition_value), Member(kExtra, extra)>>))

Request(rule, data, extra) ==
  Obj(Present(<<Member(kRule, rule), Member(kData, data), Member(kExtra, extra)>>))

\* Requests that pass the schemas: every field, condition, condition value
\* and data of the pools.
EvalRequests ==
  {Request(Rule(Str(f), c, cv, Undefined), d, Undefined) :
     f \in Fields, c \in ConditionNames, cv \in ConditionValues, d \in GoodData}

FieldShapes == {Undefined, Null, Num(1), Str(<<>>), Str(kA), Str(<<"0">>)}

ConditionShapes ==
  {Undefined, Null, Num(1), Name(<<"e", "q", "q">>), cEq, cGt, cContains}

ValueShapes == {Undefined, Null, Num(1), Str(kA)}

RuleShapes ==
  {Undefined, Null, Num(1), Bool(TRUE), Str(<<>>), Str(kA), Arr(<<>>)}
    \cup {Rule(f, c, cv, x) : f \in FieldShapes, c \in ConditionShapes,
                              cv \in ValueShapes, x \in {Undefined, Num(1)}}

DataShapes ==
  {Undefined, Null, Num(1), Bool(TRUE), Str(<<>>), Str(<<"a", "b">>),
   Arr(<<Str(kA)>>), Obj(<<>>), Obj(<<Member(kA, Num(1))>>)}

\* Requests of every shape, well-formed or not.
ShapeRequests ==
  {Null, Num(1), Bool(FALSE), Str(<<>>), Str(kA), Arr(<<>>),
   Arr(<<Request(Rule(Str(kA), cEq, Num(1), Undefined), Obj(<<>>), Undefined)>>)}
    \cup {Request(r, d, x) : r \in RuleShapes, d \in DataShapes,
                             x \in {Undefined, Num(1)}}

Requests == EvalRequests \cup ShapeRequests

\* ------------------------------------------------------- the state machine
NoOutcome == Abort("none", "")

Init ==
  /\ req \in Requests
  /\ pc = "start"
  /\ outcome = NoOutcome

\* One call of validate(req).
Validate ==
  /\ pc = "start"
  /\ outcome' = validate(req)
  /\ pc' = "done"
  /\ UNCHANGED req

Next == Validate

Spec == Init /\ [][Next]_vars

\* ------------------------------------------------- vocabulary of the claims
Done == pc = "done"

IsObject(v) == v.t = "obj"

Has(v, k) == IsObject(v) /\ HasOwn(v.o, k)

Get(v, k) == IF IsObject(v) THEN OwnValue(v.o, k) ELSE Undefined

ruleOf(r) == Get(r, kRule)
dataOf(r) == Get(r, kData)
fieldOf(r) == Get(ruleOf(r), kField)
conditionOf(r) == Get(ruleOf(r), kCondition)
valueOf(r) == Get(ruleOf(r), kConditionValue)

\* A rule object that holds exactly a non-empty text field, a registered
\* condition and a condition_value.
WellFormedRule(rule) ==
  /\ IsObject(rule)
  /\ OwnKeys(rule.o) = {kField, kCondition, kConditionValue}
  /\ Get(rule, kField).t = "str"
  /\ Get(rule, kField).s # <<>>
  /\ Get(rule, kCondition) \in ConditionNames

WellFormedData(data) ==
  \/ data.t \in {"arr", "obj"}
  \/ data.t = "str" /\ data.s # <<>>

\* A request that holds exactly a well-formed rule and a well-formed data.
WellFormed(r) ==
  /\ IsObject(r)
  /\ OwnKeys(r.o) = {kRule, kData}
  /\ WellFormedRule(ruleOf(r))
  /\ WellFormedData(dataOf(r))

Holds(b) == b.t = "bool" /\ b.b

RequiredAbort(name) == Abort("missing_required_field", name)

\* The call returned the abort of this type and message.
Aborted(type, value) == outcome.type = type /\ outcome.value = value

ConditionMessage == "rule.condition must be one of eq, neq, gt, gte, or contains"
DataMessage == "data should be an array, an object, or a string."
RuleMessage == "rule should be an object."

\* ---------------------------------------------------------------- claims

\* C1: validate returns an outcome of one of the five types for every input;
\* it never raises an exception to its caller.
C1_NeverThrows ==
  Done =>
    outcome.type \in {"invalid_schema", "type_error", "missing_required_field",
                      "missing_data_field", "completed"}

\* C2 (as stated): whenever the key rule or the key data is absent the outcome
\* is missing_required_field naming an absent key, whatever the other key holds.
C2_Original ==
  Done /\ IsObject(req) /\ (~Has(req, kRule) \/ ~Has(req, kData)) =>
    \/ ~Has(req, kRule) /\ Aborted("missing_required_field", "rule is required.")
    \/ ~Has(req, kData) /\ Aborted("missing_required_field", "data is required.")

\* C2 (amended): an object without the key rule gives missing_required_field
\* "rule is required." whatever data holds, and an object without the key data
\* gives missing_required_field "data is required." when its rule is well-formed.
C2_MissingTopLevelKey ==
  Done /\ IsObject(req) =>
    /\ ~Has(req, kRule) => Aborted("missing_required_field", "rule is required.")
    /\ ~Has(req, kData) /\ WellFormedRule(ruleOf(req)) =>
         Aborted("missing_required_field", "data is required.")

C2_Witness ==
  /\ Done
  /\ IsObject(req)
  /\ ~Has(req, kData)
  /\ WellFormedRule(ruleOf(req))
  /\ Aborted("missing_required_field", "data is required.")

\* C3: for a well-formed request with string or array data and the condition
\* contains, a completed outcome has error = false exactly when the element at
\* the index rule.field parses to equals condition_value, or, when rule.field
\* parses to no number, exactly when data includes condition_value.
C3_ContainsPositional ==
  Done /\ WellFormed(req) /\ dataOf(req).t \in {"str", "arr"}
       /\ conditionOf(req) = cContains /\ outcome.type = "completed" =>
    LET index == ParseInt(fieldOf(req).s)
    IN IF index.t = "num"
       THEN outcome.value.error
              = ~StrictEq(GetProp(dataOf(req), NumToChars(index.n)), valueOf(req))
       ELSE outcome.value.error = ~Holds(Includes(dataOf(req), valueOf(req)))

\* The value the claim C4 describes: data indexed by each non-empty segment
\* of the field in turn, by own key, element or character; Undefined when a
\* step finds nothing to index or no such member. A segment of blanks counts
\* as empty, as it does for the code.
ClaimedSegments(path) == SelectSeq(Split(path), LAMBDA v : Trim(v) # <<>>)

ClaimedStep(v, k) ==
  CASE v.t = "obj" -> OwnValue(v.o, k)
    [] v.t = "arr" ->
         IF IsIndexKey(k) /\ DecValue(k) < Len(v.a) THEN v.a[DecValue(k) + 1]
         ELSE Undefined
    [] v.t = "str" ->
         IF IsIndexKey(k) /\ DecValue(k) < Len(v.s) THEN Str(<<v.s[DecValue(k) + 1]>>)
         ELSE Undefined
    [] OTHER -> Undefined

RECURSIVE ClaimedWalk(_, _)
ClaimedWalk(v, segments) ==
  IF segments = <<>> THEN v
  ELSE ClaimedWalk(ClaimedStep(v, Head(segments)), Tail(segments))

\* C4: for a well-formed request with object data, the outcome is
\* missing_data_field "field <field> is missing from data." when walking data
\* by the non-empty segments of rule.field finds no value, and otherwise it is
\* completed with that value as field_value. Stated for the calls that
\* return: the calls that raise are the subject of C1.
C4_ObjectResolution ==
  Done /\ WellFormed(req) /\ dataOf(req).t = "obj" /\ outcome.type # "exception" =>
    LET resolved == ClaimedWalk(dataOf(req), ClaimedSegments(fieldOf(req).s))
    IN IF resolved.t = "undefined"
       THEN Aborted("missing_data_field", MissingField(fieldOf(req).s))
       ELSE outcome.type = "completed" /\ outcome.value.field_value = resolved

\* C5 (as stated): whenever rule.condition is present and is not a registered
\* name, the outcome is type_error with the enumeration message.
C5_Original ==
  Done /\ Has(ruleOf(req), kCondition) /\ conditionOf(req) \notin ConditionNames =>
    Aborted("type_error", ConditionMessage)

\* C5 (amended): when rule.field is a non-empty string and rule.condition is
\* present and is not a registered name, the outcome is type_error with the
\* enumeration message.
C5_UnknownCondition ==
  Done /\ Has(ruleOf(req), kCondition) /\ conditionOf(req) \notin ConditionNames
       /\ fieldOf(req).t = "str" /\ fieldOf(req).s # <<>> =>
    Aborted("type_error", ConditionMessage)

C5_Witness ==
  /\ Done
  /\ conditionOf(req) = Name(<<"e", "q", "q">>)
  /\ fieldOf(req) = Str(kA)
  /\ Aborted("type_error", ConditionMessage)

\* C6: an input that is not an object (a string, a number, a boolean, null,
\* an array) gives invalid_schema "Invalid JSON payload passed.".
C6_NotAnObject ==
  Done /\ ~IsObject(req) =>
    Aborted("invalid_schema", "Invalid JSON payload passed.")

C6_Witness ==
  /\ Done
  /\ req.t = "arr"
  /\ Len(req.a) = 1
  /\ Aborted("invalid_schema", "Invalid JSON payload passed.")

\* C7: a rule that is present and is not an object gives type_error "rule
\* should be an object."; with a well-formed rule, a data that is present and
\* is not an object, an array or a string gives type_error "data should be an
\* array, an object, or a string.".
C7_TypeErrors ==
  Done /\ IsObject(req) =>
    /\ Has(req, kRule) /\ ~IsObject(ruleOf(req)) =>
         Aborted("type_error", RuleMessage)
    /\ WellFormedRule(ruleOf(req)) /\ Has(req, kData)
         /\ dataOf(req).t \notin {"obj", "arr", "str"} =>
         Aborted("type_error", DataMessage)

C7_Witness ==
  /\ Done
  /\ WellFormedRule(ruleOf(req))
  /\ dataOf(req) = Bool(TRUE)
  /\ Aborted("type_error", DataMessage)

\* The shape rules of C8 an input violates, by their number in the claim.
\* Rule 2 is given as a parameter: "rule or data absent" as stated, "rule
\* absent" as amended.
Violations(r, second) ==
  {i \in 1..8 :
     CASE i = 1 -> ~IsObject(r)
       [] i = 2 -> IsObject(r) /\ second
       [] i = 3 -> Has(r, kRule) /\ ~IsObject(ruleOf(r))
       [] i = 4 -> IsObject(ruleOf(r)) /\ fieldOf(r).t # "str"
       [] i = 5 -> IsObject(ruleOf(r)) /\ conditionOf(r) \notin ConditionNames
       [] i = 6 -> IsObject(ruleOf(r)) /\ ~Has(ruleOf(r), kConditionValue)
       [] i = 7 -> IsObject(r) /\ ~Has(r, kData)
       [] OTHER -> Has(r, kData) /\ dataOf(r).t \notin {"obj", "arr", "str"}}

\* The aborts that report the violation of rule i.
Reports(r, i) ==
  CASE i = 1 -> {Abort("invalid_schema", "Invalid JSON payload passed.")}
    [] i = 2 -> (IF Has(r, kRule) THEN {} ELSE {RequiredAbort("rule is required.")})
                  \cup (IF Has(r, kData) THEN {}
                        ELSE {RequiredAbort("data is required.")})
    [] i = 3 -> {Abort("type_error", RuleMessage)}
    [] i = 4 -> IF Has(ruleOf(r), kField)
                THEN {Abort("type_error", "rule.field should be a string")}
                ELSE {RequiredAbort("rule.field is required")}
    [] i = 5 -> IF Has(ruleOf(r), kCondition)
                THEN {Abort("type_error", ConditionMessage)}
                ELSE {RequiredAbort("rule.condition is required")}
    [] i = 6 -> {RequiredAbort("rule.condition_value is required")}
    [] i = 7 -> {RequiredAbort("data is required.")}
    [] OTHER -> {Abort("type_error", DataMessage)}

First(S) == CHOOSE i \in S : \A j \in S : i <= j

\* The inputs whose only defects are among the eight rules: no key beyond
\* rule, data, field, condition and condition_value, no empty rule.field and
\* no empty data.
OnlyListedDefects(r) ==
  /\ IsObject(r) => OwnKeys(r.o) \subseteq {kRule, kData}
  /\ IsObject(ruleOf(r)) =>
       /\ OwnKeys(ruleOf(r).o) \subseteq {kField, kCondition, kConditionValue}
       /\ fieldOf(r) # Str(<<>>)
  /\ dataOf(r) # Str(<<>>)

C9_WholeContainer ==
  Done /\ WellFormed(req) /\ dataOf(req).t \in {"str", "arr"} =>
    outcome.type = "completed" /\ outcome.value.field_value = dataOf(req)

\* C10: a completed outcome echoes field, condition and condition_value of
\* the request, and for eq, neq, gt and gte its error flag is the negation of
\* the predicate applied to (field_value, condition_value).
C10_CompletedOutcome ==
  Done /\ outcome.type = "completed" =>
    LET v == outcome.value
    IN /\ v.field = fieldOf(req)
       /\ v.condition = conditionOf(req)
       /\ v.condition_value = valueOf(req)
       /\ v.condition = cEq => v.error = ~StrictEq(v.field_value, v.condition_value)
       /\ v.condition = cNeq => v.error = StrictEq(v.field_value, v.condition_value)
       /\ v.condition = cGt =>
            v.error = ~Holds(Greater(v.field_value, v.condition_value))
       /\ v.condition = cGte =>
            v.error = ~Holds(GreaterEq(v.field_value, v.condition_value))

C10_Witness ==
  /\ Done
  /\ outcome.type = "completed"
  /\ outcome.value.condition = cGte
  /\ outcome.value.field_value = Num(1)
  /\ outcome.value.condition_value = Num(1)
  /\ outcome.value.error = FALSE

====
